---- MODULE Spec2Model ----
(***************************************************************************)
(* dr-todo: daily todo lists kept as dated text files.                     *)
(*                                                                         *)
(* Text is modelled as a sequence of one-character strings, so that the   *)
(* string operations of the program (Split, Trim, ReplaceAll, Join,        *)
(* ReadString) are computed on characters as the Go code computes them.    *)
(*                                                                         *)
(* The specifications share the variables:                                 *)
(*   SpecTodo        the todo line codec (Todo.String, ParseTodo)          *)
(*   SpecParse       the list parser and serializer (parseList, Dump)      *)
(*   SpecParsePlain  the same, no heading holding the separator ":@>"      *)
(*   Spec            the dated list store, CreateToday and HandleEdit      *)
(***************************************************************************)
EXTENDS Integers, Sequences, FiniteSets, TLC

VARIABLES
    \* ---- todo line codec
    tpc,        \* "todo" | "line" | "parsed"
    todo,       \* the Todo being formatted
    tline,      \* the text Todo.String() returned
    tparsed,    \* what ParseTodo returned for tline
    \* ---- list parser / serializer
    pc,         \* "read" | "done" | "failed" | "dumped" | "reparsed" | "idle"
    input,      \* the text the reader has delivered so far
    listStack,  \* parseList's listStack
    sublists,   \* parseList's sublists (insertion-ordered map)
    perr,       \* the error parseList returned ("" = nil)
    omit,       \* Dump's omitCompleted argument
    out,        \* the text Dump wrote
    list2,      \* ParseList(out)
    hist,       \* history: per todo read, its listID and the open headings
    \* ---- dated list store
    files,      \* the home directory: file name -> content
    now,        \* index into Days of time.Now()
    res,        \* the last command and what it returned
    before,     \* history: the directory before the last command
    orig,       \* history: GetLatestList of the directory at the start
    edited,     \* history: number of files the editor has written
    calls       \* history: number of CreateToday calls made

vars == <<tpc, todo, tline, tparsed,
          pc, input, listStack, sublists, perr, omit, out, list2, hist,
          files, now, res, before, orig, edited, calls>>

todoVars  == <<tpc, todo, tline, tparsed>>
parseVars == <<pc, input, listStack, sublists, perr, omit, out, list2, hist>>
storeVars == <<files, now, res, before, orig, edited, calls>>

-----------------------------------------------------------------------------
(* Bounds of the model *)

MaxNameLen == 3
MaxLines == 4
MaxFiles == 2
MaxCalls == 2
MaxDays == 3
MaxEdits == 1
MaxOffset == 2

-----------------------------------------------------------------------------
(* Go's strings package, on sequences of characters *)

NL == "\n"

\* does sep occur in s at position i
HasAt(s, sep, i) ==
    /\ i + Len(sep) - 1 <= Len(s)
    /\ \A k \in 1..Len(sep) : s[i + k - 1] = sep[k]

\* strings.Index, 1-based, searching from position i; 0 when absent
RECURSIVE IndexFrom(_, _, _)
IndexFrom(s, sep, i) ==
    IF i + Len(sep) - 1 > Len(s) THEN 0
    ELSE IF HasAt(s, sep, i) THEN i
    ELSE IndexFrom(s, sep, i + 1)

\* strings.Split(s, sep) for a non-empty sep: every occurrence, left to right
RECURSIVE Split(_, _)
Split(s, sep) ==
    LET i == IndexFrom(s, sep, 1)
    IN  IF i = 0 THEN <<s>>
        ELSE <<SubSeq(s, 1, i - 1)>> \o Split(SubSeq(s, i + Len(sep), Len(s)), sep)

\* strings.ReplaceAll(s, c, "") for a single character c
RemoveAll(s, c) == SelectSeq(s, LAMBDA ch : ch # c)

\* strings.Trim(s, cutset): drop leading and trailing characters of cutset
RECURSIVE TrimLeft(_, _)
TrimLeft(s, cutset) ==
    IF s # <<>> /\ Head(s) \in cutset THEN TrimLeft(Tail(s), cutset) ELSE s

RECURSIVE TrimRight(_, _)
TrimRight(s, cutset) ==
    IF s # <<>> /\ s[Len(s)] \in cutset
    THEN TrimRight(SubSeq(s, 1, Len(s) - 1), cutset) ELSE s

Trim(s, cutset) == TrimRight(TrimLeft(s, cutset), cutset)

\* strings.Join(elems, sep)
RECURSIVE Join(_, _)
Join(elems, sep) ==
    IF elems = <<>> THEN <<>>
    ELSE IF Len(elems) = 1 THEN elems[1]
    ELSE elems[1] \o sep \o Join(Tail(elems), sep)

\* strings.Repeat(c, n) for a single character c
Repeat(c, n) == [i \in 1..n |-> c]

-----------------------------------------------------------------------------
(* Todo line codec *)

\* Todo.String
String(t) ==
    LET checkbox == IF t.Completed THEN <<"-", " ", "[", "x", "]">>
                    ELSE <<"-", " ", "[", " ", "]">>
    IN  checkbox \o <<" ">> \o t.Name

NoTodo == [ListID |-> <<>>, Name |-> <<>>, Completed |-> FALSE]

\* ParseTodo
ParseTodo(listID, in) ==
    LET parts == Split(in, <<"]">>)
        checkbox == RemoveAll(parts[1] \o <<"]">>, " ")
    IN  IF Len(parts) < 2
        THEN [err |-> "missing checkbox", todo |-> NoTodo]
        ELSE IF checkbox = <<"-", "[", "]">>
        THEN [err |-> "",
              todo |-> [ListID |-> listID,
                        Name |-> Trim(parts[2], {" ", NL}),
                        Completed |-> FALSE]]
        ELSE IF checkbox = <<"-", "[", "x", "]">>
        THEN [err |-> "",
              todo |-> [ListID |-> listID,
                        Name |-> Trim(parts[2], {" ", NL}),
                        Completed |-> TRUE]]
        ELSE [err |-> "invalid checkbox string", todo |-> NoTodo]

-----------------------------------------------------------------------------
(* Hierarchical list parser *)

listSep == <<":", "@", ">">>

\* getHeaderWithDepth: the byte index of the first character that is not '#'
\* (0 when there is none) and the text trimmed of spaces, '#' and newline
RECURSIVE FirstNonHash(_, _)
FirstNonHash(in, idx) ==
    IF idx > Len(in) THEN 0
    ELSE IF in[idx] # "#" THEN idx - 1
    ELSE FirstNonHash(in, idx + 1)

getHeaderWithDepth(in) ==
    [name |-> Trim(in, {" ", "#", NL}), depth |-> FirstNonHash(in, 1)]

\* ordmap.OrdMap: a map that iterates in the order its keys were first set,
\* kept as a sequence of entries [key, val]
RECURSIVE OrdIndex(_, _, _)
OrdIndex(m, k, i) ==
    IF i > Len(m) THEN 0
    ELSE IF m[i].key = k THEN i
    ELSE OrdIndex(m, k, i + 1)

OrdGet(m, k) ==
    LET i == OrdIndex(m, k, 1) IN IF i = 0 THEN <<>> ELSE m[i].val

OrdSet(m, k, v) ==
    LET i == OrdIndex(m, k, 1)
    IN  IF i = 0 THEN Append(m, [key |-> k, val |-> v])
        ELSE [m EXCEPT ![i] = [key |-> k, val |-> v]]

\* the loop of case d < depth: pop every entry whose depth is >= d
RECURSIVE PopTo(_, _)
PopTo(stack, d) ==
    IF Len(stack) > 0 /\ stack[Len(stack)].depth >= d
    THEN PopTo(SubSeq(stack, 1, Len(stack) - 1), d)
    ELSE stack

\* parseList, the heading branch: the new listStack
PushHeading(stack, rawLine) ==
    LET depth == IF Len(stack) > 0 THEN stack[Len(stack)].depth ELSE 0
        h == getHeaderWithDepth(rawLine)
        ln == [name |-> h.name, depth |-> h.depth]
    IN  IF h.depth > depth THEN Append(stack, ln)
        ELSE IF h.depth = depth THEN [stack EXCEPT ![Len(stack)] = ln]
        ELSE Append(PopTo(stack, h.depth), ln)

\* parseList: listID of the open headings
ListIDOf(stack) == Join([i \in 1..Len(stack) |-> stack[i].name], listSep)

EmptyParse == [listStack |-> <<>>, sublists |-> <<>>, err |-> ""]

\* parseList, one iteration of the loop on a line ReadString delivered
\* (rawLine ends with the newline)
ParseLine(st, rawLine) ==
    IF rawLine[1] = NL THEN st
    ELSE IF rawLine[1] = "#"
    THEN [st EXCEPT !.listStack = PushHeading(st.listStack, rawLine)]
    ELSE LET listID == ListIDOf(st.listStack)
             r == ParseTodo(listID, rawLine)
         IN  IF r.err # ""
             THEN [listStack |-> <<>>, sublists |-> <<>>, err |-> r.err]
             ELSE [st EXCEPT !.sublists =
                      OrdSet(st.sublists, listID,
                             Append(OrdGet(st.sublists, listID), r.todo))]

\* parseList on a whole text: ReadString('\n') until io.EOF; what is left
\* after the last newline comes with io.EOF and the loop breaks
RECURSIVE parseLoop(_, _)
parseLoop(st, text) ==
    LET i == IndexFrom(text, <<NL>>, 1)
    IN  IF i = 0 THEN st
        ELSE LET st2 == ParseLine(st, SubSeq(text, 1, i))
             IN  IF st2.err # "" THEN st2
                 ELSE parseLoop(st2, SubSeq(text, i + 1, Len(text)))

parseList(text) == parseLoop(EmptyParse, text)

\* List{} : no name, Sublists a nil pointer
NilList == [Name |-> <<>>, Nil |-> TRUE, Sublists |-> <<>>]

\* ParseList
ParseList(name, text) ==
    LET r == parseList(text)
    IN  IF r.err # "" THEN [err |-> r.err, list |-> NilList]
        ELSE [err |-> "",
              list |-> [Name |-> name, Nil |-> FALSE, Sublists |-> r.sublists]]

-----------------------------------------------------------------------------
(* List serializer *)

\* List.Dump, the inner loop over one group's todos
RECURSIVE DumpTodos(_, _)
DumpTodos(todos, omitCompleted) ==
    IF todos = <<>> THEN <<>>
    ELSE (IF ~omitCompleted \/ ~Head(todos).Completed
          THEN String(Head(todos)) \o <<NL>> ELSE <<>>)
         \o DumpTodos(Tail(todos), omitCompleted)

\* List.Dump, the outer loop over the groups in insertion order
RECURSIVE DumpFrom(_, _, _)
DumpFrom(entries, firstLine, omitCompleted) ==
    IF entries = <<>> THEN <<>>
    ELSE LET e == Head(entries)
             parts == Split(e.key, listSep)
             hashes == Repeat("#", Len(parts))
         IN  (IF ~firstLine THEN <<NL>> ELSE <<>>)
             \o hashes \o <<" ">> \o parts[Len(parts)] \o <<NL>>
             \o DumpTodos(e.val, omitCompleted)
             \o DumpFrom(Tail(entries), FALSE, omitCompleted)

\* a Dump that ignores omitCompleted
DumpIgnoringFlag(entries, omitCompleted) == DumpFrom(entries, TRUE, FALSE)

\* a Dump that skips the groups it has no todo to print for
DumpSkippingEmptied(entries, omitCompleted) ==
    DumpFrom(SelectSeq(entries,
                 LAMBDA e : DumpTodos(e.val, omitCompleted) # <<>>),
             TRUE, omitCompleted)

\* List.Dump of the entries of l.Sublists: the text written
Dump(entries, omitCompleted) == DumpFrom(entries, TRUE, omitCompleted)

-----------------------------------------------------------------------------
(* Date codec: a time.Time of the layout "2006-01-02" is a record [y, m, d] *)

Digits == <<"0", "1", "2", "3", "4", "5", "6", "7", "8", "9">>

IsDigit(c) == \E n \in 1..10 : Digits[n] = c
DigitVal(c) == (CHOOSE n \in 1..10 : Digits[n] = c) - 1

Pad2(n) == <<Digits[(n \div 10) + 1], Digits[(n % 10) + 1]>>
Pad4(n) == Pad2(n \div 100) \o Pad2(n % 100)

\* FormatDate
FormatDate(date) ==
    Pad4(date.y) \o <<"-">> \o Pad2(date.m) \o <<"-">> \o Pad2(date.d)

IsLeap(y) == (y % 4 = 0 /\ y % 100 # 0) \/ y % 400 = 0

DaysIn(y, m) ==
    IF m = 2 THEN (IF IsLeap(y) THEN 29 ELSE 28)
    ELSE IF m \in {4, 6, 9, 11} THEN 30 ELSE 31

NoDate == [y |-> 0, m |-> 0, d |-> 0]

\* ParseDate: four digits, '-', two digits, '-', two digits and nothing else;
\* the month and the day in range
ParseDate(in) ==
    IF /\ Len(in) = 10
       /\ \A i \in {1, 2, 3, 4, 6, 7, 9, 10} : IsDigit(in[i])
       /\ in[5] = "-"
       /\ in[8] = "-"
    THEN LET y == 1000 * DigitVal(in[1]) + 100 * DigitVal(in[2])
                    + 10 * DigitVal(in[3]) + DigitVal(in[4])
             m == 10 * DigitVal(in[6]) + DigitVal(in[7])
             d == 10 * DigitVal(in[9]) + DigitVal(in[10])
         IN  IF m \in 1..12 /\ d \in 1..DaysIn(y, m)
             THEN [err |-> "", date |-> [y |-> y, m |-> m, d |-> d]]
             ELSE [err |-> "parsing time", date |-> NoDate]
    ELSE [err |-> "parsing time", date |-> NoDate]

\* time.Time.Compare
Compare(a, b) ==
    IF a.y # b.y THEN (IF a.y < b.y THEN -1 ELSE 1)
    ELSE IF a.m # b.m THEN (IF a.m < b.m THEN -1 ELSE 1)
    ELSE IF a.d # b.d THEN (IF a.d < b.d THEN -1 ELSE 1)
    ELSE 0

-----------------------------------------------------------------------------
(* Dated list store.  The home directory is a function from file names to  *)
(* contents; a path is the file's name in the home directory.              *)

\* byte values of the characters file names are made of
CharCode(c) ==
    CASE c = "-" -> 45
      [] c = "." -> 46
      [] IsDigit(c) -> 48 + DigitVal(c)
      [] c = "d" -> 100
      [] c = "m" -> 109
      [] c = "n" -> 110
      [] c = "t" -> 116
      [] c = "x" -> 120
      [] OTHER -> 255

RECURSIVE NameLess(_, _)
NameLess(a, b) ==
    IF a = <<>> THEN b # <<>>
    ELSE IF b = <<>> THEN FALSE
    ELSE IF Head(a) # Head(b) THEN CharCode(Head(a)) < CharCode(Head(b))
    ELSE NameLess(Tail(a), Tail(b))

\* os.ReadDir: the entries of the directory, sorted by file name
RECURSIVE ReadDir(_)
ReadDir(names) ==
    IF names = {} THEN <<>>
    ELSE LET first == CHOOSE n \in names :
                          \A o \in names \ {n} : NameLess(n, o)
         IN  <<first>> \o ReadDir(names \ {first})

\* the comparison GetSortedListPaths sorts with
DateCmpAscending(a, b) == Compare(a, b)

DateCmp(a, b) == Compare(b, a)

\* slices.SortFunc(dates, DateCmp)
RECURSIVE InsertDate(_, _)
InsertDate(sorted, x) ==
    IF sorted = <<>> THEN <<x>>
    ELSE IF DateCmp(x, Head(sorted)) < 0 THEN <<x>> \o sorted
    ELSE <<Head(sorted)>> \o InsertDate(Tail(sorted), x)

RECURSIVE SortDates(_)
SortDates(dates) ==
    IF dates = <<>> THEN <<>>
    ELSE InsertDate(SortDates(Tail(dates)), Head(dates))

DotMd == <<".", "m", "d">>

\* GetSortedListPaths, the loop over the entries: the dates, or the first error
RECURSIVE ScanEntries(_, _)
ScanEntries(entries, dates) ==
    IF entries = <<>> THEN [err |-> "", dates |-> dates]
    ELSE LET parts == Split(Head(entries), <<".">>)
         IN  IF Len(parts) # 2
             THEN [err |-> "file names can only contain a single '.'",
                   dates |-> <<>>]
             ELSE LET r == ParseDate(parts[1])
                  IN  IF r.err # ""
                      THEN [err |-> "parsing date", dates |-> <<>>]
                      ELSE ScanEntries(Tail(entries), Append(dates, r.date))

\* GetSortedListPaths, the last loop: a path for each date
PathsOf(dates) == [i \in 1..Len(dates) |-> FormatDate(dates[i]) \o DotMd]

\* GetSortedListPaths, after the loop over the entries
SortedPaths(scan) ==
    IF scan.err # "" THEN [err |-> scan.err, paths |-> <<>>]
    ELSE [err |-> "", paths |-> PathsOf(SortDates(scan.dates))]

\* GetSortedListPaths
GetSortedListPaths(fs) ==
    IF DOMAIN fs = {} THEN [err |-> "", paths |-> <<>>]
    ELSE SortedPaths(ScanEntries(ReadDir(DOMAIN fs), <<>>))

\* filepath.Ext: the suffix of the name from its last '.'
RECURSIVE LastDot(_, _)
LastDot(name, i) ==
    IF i = 0 THEN 0 ELSE IF name[i] = "." THEN i ELSE LastDot(name, i - 1)

TrimExt(name) ==
    LET i == LastDot(name, Len(name))
    IN  IF i = 0 THEN name ELSE SubSeq(name, 1, i - 1)

ErrListNotFound == "list not found"

\* GetLatestList, once the paths are sorted
LatestOf(fs, sorted) ==
    IF sorted.err # ""
    THEN [err |-> "getting sorted paths", list |-> NilList]
    ELSE IF Len(sorted.paths) = 0
    THEN [err |-> ErrListNotFound, list |-> NilList]
    ELSE IF sorted.paths[1] \notin DOMAIN fs
    THEN [err |-> "opening latest file", list |-> NilList]
    ELSE LET r == ParseList(TrimExt(sorted.paths[1]), fs[sorted.paths[1]])
         IN  IF r.err # "" THEN [err |-> "parsing list", list |-> NilList]
             ELSE r

\* GetLatestList
GetLatestList(fs) == LatestOf(fs, GetSortedListPaths(fs))

\* os.Create: the file exists afterwards, with `content`
WriteFile(fs, name, content) ==
    [n \in DOMAIN fs \cup {name} |-> IF n = name THEN content ELSE fs[n]]

Title(today) == <<"T", "O", "D", "O", " ">> \o today

\* DrTodo.CreateToday from the call of GetLatestList on, with every error of
\* GetLatestList taken for ErrListNotFound
CarryOverSwallowing(fs, fname, latest) ==
    IF latest.list.Nil
    THEN {[err |-> e, path |-> IF e = "" THEN fname ELSE <<>>,
           files |-> WriteFile(fs, fname, <<>>)] : e \in {"", "panic"}}
    ELSE {[err |-> "", path |-> fname,
           files |-> WriteFile(fs, fname, Dump(latest.list.Sublists, TRUE))]}

\* DrTodo.CreateToday from the call of GetLatestList on
CarryOver(fs, fname, latest) ==
    IF latest.err # "" /\ latest.err # ErrListNotFound
    THEN {[err |-> "getting previous list", path |-> <<>>, files |-> fs]}
    ELSE IF latest.list.Nil
    THEN {[err |-> e, path |-> IF e = "" THEN fname ELSE <<>>,
           files |-> WriteFile(fs, fname, <<>>)] : e \in {"", "panic"}}
    ELSE {[err |-> "", path |-> fname,
           files |-> WriteFile(fs, fname, Dump(latest.list.Sublists, TRUE))]}

\* DrTodo.CreateToday with the check for today's file left out
CreateTodayOverwriting(fs, date) ==
    CarryOver(fs, FormatDate(date) \o DotMd, GetLatestList(fs))

\* DrTodo.CreateToday on the directory fs when time.Now() is `date`: the
\* possible outcomes [err, path, files].  The Name set on latest is read by
\* nothing.  After ErrListNotFound latest is List{}, whose Sublists is a nil
\* pointer: Dump calls EntryIter on it, which either iterates nothing or
\* dereferences nil and panics; os.Create has made the file by then.
CreateToday(fs, date) ==
    IF FormatDate(date) \o DotMd \in DOMAIN fs
    THEN {[err |-> "already exists", path |-> <<>>, files |-> fs]}
    ELSE CarryOver(fs, FormatDate(date) \o DotMd, GetLatestList(fs))

\* HandleEdit, once the paths are sorted: the path paths[offset] handed to
\* the editor and the index used.  Only offsets at or past len(paths) are
\* clamped; indexing the slice with a negative offset panics.
PickPath(sorted, offset) ==
    IF sorted.err # ""
    THEN [err |-> "could not find latest list", path |-> <<>>, paths |-> <<>>,
          index |-> offset]
    ELSE IF Len(sorted.paths) = 0
    THEN [err |-> "no lists found", path |-> <<>>, paths |-> <<>>,
          index |-> offset]
    ELSE IF offset < 0
    THEN [err |-> "panic", path |-> <<>>, paths |-> sorted.paths,
          index |-> offset]
    ELSE IF offset >= Len(sorted.paths)
    THEN [err |-> "", path |-> sorted.paths[Len(sorted.paths)],
          paths |-> sorted.paths, index |-> Len(sorted.paths) - 1]
    ELSE [err |-> "", path |-> sorted.paths[offset + 1],
          paths |-> sorted.paths, index |-> offset]

\* HandleEdit up to the start of the editor: the path handed to it.
\* offset is what strconv.Atoi returned (0 when no argument is given); a
\* negative one indexes paths out of range.
HandleEdit(fs, offset) == PickPath(GetSortedListPaths(fs), offset)

-----------------------------------------------------------------------------
(* Inputs *)

\* todo names: trimmed, non-empty, any of these characters inside
NameChars == {"a", "x", "[", "]", " "}

TodoNames ==
    {s \in UNION {[1..n -> NameChars] : n \in 1..MaxNameLen} :
        Trim(s, {" ", NL}) = s}

\* lines of a document, without their newline
HeadingLines ==
    { <<"#", " ", "a">>,
      <<"#", "#", " ", "b">>,
      <<"#", "#", "#", " ", "a">>,
      <<"#", " ", "a", ":", "@", ">", "b">> }

TodoLines ==
    { <<"-", " ", "[", "]", " ", "a">>,
      <<"-", " ", "[", "x", "]", " ", "b">>,
      <<"-", " ", "[", "]", " ">> }

BadLines ==
    { <<"-", " ", "a">>,
      <<"-", "[", "o", "]", " ", "a">> }

LineSet == HeadingLines \cup TodoLines \cup BadLines \cup {<<>>}

\* what may follow the last newline of a document
TailSet == {<<>>, <<"-", " ", "[", "]", " ", "a">>}

\* the i-th day of the model's calendar: 2024-12-30, 2024-12-31, 2025-01-01, ...
Day(i) ==
    IF i <= 2 THEN [y |-> 2024, m |-> 12, d |-> 29 + i]
    ELSE [y |-> 2025, m |-> 1, d |-> i - 2]

\* names a home directory may hold at the start: lists, and entries that
\* are no lists of the program's
ListNames ==
    { FormatDate(Day(1)) \o DotMd,
      FormatDate(Day(2)) \o DotMd }

OtherNames ==
    { FormatDate(Day(1)) \o <<".", "t", "x", "t">>,
      <<"n">>,
      <<"2", "0", "2", "4", "-", "1", "3", "-", "0", "1", ".", "m", "d">> }

InitNames == ListNames \cup OtherNames

DocPlain ==
    <<"#", " ", "a", NL,
      "-", " ", "[", "]", " ", "a", NL,
      "-", " ", "[", "x", "]", " ", "b", NL>>

DocNested ==
    <<"#", " ", "a", NL,
      "#", "#", " ", "b", NL,
      "-", " ", "[", "]", " ", "a", NL>>

DocBad ==
    <<"#", " ", "a", NL,
      "-", " ", "a", NL>>

\* contents a list file may have at the start
InitDocs == {DocPlain, DocNested, DocBad}

\* contents the editor may leave in a file
EditDocs == {DocNested}

\* the directories at the start: at most MaxFiles entries; the content of an
\* entry that is no list is never read and is left empty
InitDirs ==
    UNION {{f \in [S -> InitDocs \cup {<<>>}] :
               \A n \in S : f[n] = <<>> <=> n \in OtherNames} :
              S \in {T \in SUBSET InitNames : Cardinality(T) <= MaxFiles}}

-----------------------------------------------------------------------------
(* Values of the variables a specification does not use *)

TodoIdle ==
    /\ tpc = "idle"
    /\ todo = NoTodo
    /\ tline = <<>>
    /\ tparsed = [err |-> "", todo |-> NoTodo]

ParseIdle ==
    /\ pc = "idle"
    /\ input = <<>>
    /\ listStack = <<>>
    /\ sublists = <<>>
    /\ perr = ""
    /\ omit = FALSE
    /\ out = <<>>
    /\ list2 = [err |-> "", list |-> NilList]
    /\ hist = <<>>

NoResult == [cmd |-> "", err |-> "", path |-> <<>>, paths |-> <<>>,
             today |-> <<>>, offset |-> 0, index |-> 0]

StoreIdle ==
    /\ files = <<>>
    /\ now = 0
    /\ res = NoResult
    /\ before = <<>>
    /\ orig = [err |-> "", list |-> NilList]
    /\ edited = 0
    /\ calls = 0

-----------------------------------------------------------------------------
(* SpecTodo: format a todo, parse the line back *)

InitTodo ==
    /\ tpc = "todo"
    /\ todo \in [ListID : {<<>>}, Name : TodoNames, Completed : BOOLEAN]
    /\ tline = <<>>
    /\ tparsed = [err |-> "", todo |-> NoTodo]
    /\ ParseIdle
    /\ StoreIdle

FormatTodo ==
    /\ tpc = "todo"
    /\ tline' = String(todo)
    /\ tpc' = "line"
    /\ UNCHANGED <<todo, tparsed, parseVars, storeVars>>

ParseTodoLine ==
    /\ tpc = "line"
    /\ tparsed' = ParseTodo(todo.ListID, tline)
    /\ tpc' = "parsed"
    /\ UNCHANGED <<todo, tline, parseVars, storeVars>>

NextTodo == FormatTodo \/ ParseTodoLine

SpecTodo == InitTodo /\ [][NextTodo]_vars

-----------------------------------------------------------------------------
(* SpecParse: parseList reads a document line by line; the List is dumped *)
(* and the dump is parsed again                                           *)

NumLines(text) == Len(SelectSeq(text, LAMBDA c : c = NL))

InitParse ==
    /\ pc = "read"
    /\ input = <<>>
    /\ listStack = <<>>
    /\ sublists = <<>>
    /\ perr = ""
    /\ omit = FALSE
    /\ out = <<>>
    /\ list2 = [err |-> "", list |-> NilList]
    /\ hist = <<>>
    /\ TodoIdle
    /\ StoreIdle

\* one iteration of parseList's loop: ReadString delivers line + newline
ReadLine(line) ==
    /\ pc = "read"
    /\ NumLines(input) < MaxLines
    /\ LET st == ParseLine([listStack |-> listStack, sublists |-> sublists,
                            err |-> ""], line \o <<NL>>)
           isTodo == line # <<>> /\ line[1] # "#" /\ st.err = ""
       IN  /\ input' = input \o line \o <<NL>>
           /\ listStack' = st.listStack
           /\ sublists' = st.sublists
           /\ perr' = st.err
           /\ pc' = IF st.err # "" THEN "failed" ELSE "read"
           /\ hist' = IF isTodo
                      THEN Append(hist, [key |-> ListIDOf(listStack),
                                         open |-> Len(listStack),
                                         names |-> [i \in 1..Len(listStack) |->
                                                       listStack[i].name]])
                      ELSE hist
    /\ UNCHANGED <<omit, out, list2, todoVars, storeVars>>

\* the last iteration: ReadString returns what follows the last newline
\* together with io.EOF, and the loop breaks
ReadEOF(tail) ==
    /\ pc = "read"
    /\ input' = input \o tail
    /\ pc' = "done"
    /\ UNCHANGED <<listStack, sublists, perr, omit, out, list2, hist,
                   todoVars, storeVars>>

DumpList(omitCompleted) ==
    /\ pc = "done"
    /\ omit' = omitCompleted
    /\ out' = Dump(sublists, omitCompleted)
    /\ pc' = "dumped"
    /\ UNCHANGED <<input, listStack, sublists, perr, list2, hist,
                   todoVars, storeVars>>

Reparse ==
    /\ pc = "dumped"
    /\ ~omit
    /\ list2' = ParseList(<<>>, out)
    /\ pc' = "reparsed"
    /\ UNCHANGED <<input, listStack, sublists, perr, omit, out, hist,
                   todoVars, storeVars>>

NextParse ==
    \/ \E line \in LineSet : ReadLine(line)
    \/ \E tail \in TailSet : ReadEOF(tail)
    \/ \E o \in BOOLEAN : DumpList(o)
    \/ Reparse

SpecParse == InitParse /\ [][NextParse]_vars

\* the same, on documents none of whose headings holds the separator
PlainLines == {l \in LineSet : IndexFrom(l, listSep, 1) = 0}

NextParsePlain ==
    \/ \E line \in PlainLines : ReadLine(line)
    \/ \E tail \in TailSet : ReadEOF(tail)
    \/ \E o \in BOOLEAN : DumpList(o)
    \/ Reparse

SpecParsePlain == InitParse /\ [][NextParsePlain]_vars

-----------------------------------------------------------------------------
(* Spec: the home directory under the commands `new` and `edit`, day by day *)

Init ==
    /\ files \in InitDirs
    /\ now = 1
    /\ res = NoResult
    /\ before = files
    /\ orig = GetLatestList(files)
    /\ edited = 0
    /\ calls = 0
    /\ TodoIdle
    /\ ParseIdle

\* the command `new`: HandleNew calls DrTodo.CreateToday
New ==
    /\ calls < MaxCalls
    /\ \E o \in CreateToday(files, Day(now)) :
          /\ files' = o.files
          /\ res' = [cmd |-> "new", err |-> o.err, path |-> o.path,
                     paths |-> <<>>, today |-> FormatDate(Day(now)),
                     offset |-> 0, index |-> 0]
    /\ before' = files
    /\ calls' = calls + 1
    /\ UNCHANGED <<now, orig, edited, todoVars, parseVars>>

\* the command `edit [offset]`: HandleEdit starts the editor on a list, and
\* the editor leaves some content in it
EditResult(r, offset) ==
    /\ res' = [cmd |-> "edit", err |-> r.err, path |-> r.path,
               paths |-> r.paths, today |-> FormatDate(Day(now)),
               offset |-> offset, index |-> r.index]
    /\ IF r.err = ""
       THEN /\ \E content \in EditDocs :
                  files' = WriteFile(files, r.path, content)
            /\ edited' = edited + 1
       ELSE UNCHANGED <<files, edited>>

Edit(offset) ==
    /\ edited < MaxEdits
    /\ EditResult(HandleEdit(files, offset), offset)
    /\ before' = files
    /\ UNCHANGED <<now, orig, calls, todoVars, parseVars>>

\* midnight passes
Tick ==
    /\ now < MaxDays
    /\ now' = now + 1
    /\ UNCHANGED <<files, res, before, orig, edited, calls, todoVars, parseVars>>

Next ==
    \/ New
    \/ \E offset \in -1..MaxOffset : Edit(offset)
    \/ Tick

Spec == Init /\ [][Next]_vars


-----------------------------------------------------------------------------
(* Reading a text back, for the properties *)

\* the lines of a text, without their newlines; an unterminated last line counts
LinesOf(text) ==
    LET parts == Split(text, <<NL>>)
    IN  IF parts[Len(parts)] = <<>> THEN SubSeq(parts, 1, Len(parts) - 1)
        ELSE parts

IsBlank(l) == l = <<>>
IsHeading(l) == l # <<>> /\ l[1] = "#"
IsItem(l) == ~IsBlank(l) /\ ~IsHeading(l)

HeadingsIn(text) == SelectSeq(LinesOf(text), IsHeading)

\* the item lines of a text, grouped under the heading line they follow
RECURSIVE SectionsFrom(_, _)
SectionsFrom(lines, acc) ==
    IF lines = <<>> THEN acc
    ELSE LET l == Head(lines)
         IN  IF IsHeading(l)
             THEN SectionsFrom(Tail(lines), Append(acc, <<>>))
             ELSE IF IsItem(l) /\ acc # <<>>
             THEN SectionsFrom(Tail(lines),
                      [acc EXCEPT ![Len(acc)] = Append(@, l)])
             ELSE SectionsFrom(Tail(lines), acc)

SectionsOf(text) == SectionsFrom(LinesOf(text), <<>>)

RECURSIVE TotalTodos(_)
TotalTodos(entries) ==
    IF entries = <<>> THEN 0
    ELSE Len(Head(entries).val) + TotalTodos(Tail(entries))

\* a group as printed: depth, leaf name, and its todos' names and flags
GroupsOf(entries) ==
    [i \in 1..Len(entries) |->
        LET parts == Split(entries[i].key, listSep)
        IN  [depth |-> Len(parts),
             leaf |-> parts[Len(parts)],
             todos |-> [j \in 1..Len(entries[i].val) |->
                          [Name |-> entries[i].val[j].Name,
                           Completed |-> entries[i].val[j].Completed]]]]

NotCompleted(t) == ~t.Completed

\* the number of '#' a heading line starts with
RECURSIVE LeadingHashes(_)
LeadingHashes(l) ==
    IF l # <<>> /\ Head(l) = "#" THEN 1 + LeadingHashes(Tail(l)) ELSE 0

\* the depth printed in `text` for the group of listID in `entries`
PrintedDepth(text, entries, listID) ==
    LeadingHashes(HeadingsIn(text)[OrdIndex(entries, listID, 1)])

-----------------------------------------------------------------------------
(* Properties of the todo line codec *)

\* C1: the line Todo.String() writes for a todo with a trimmed, non-empty name
\* (any characters inside, ']' and '[' too) parses back, with ParseTodo, to
\* the same Name and the same Completed flag.
C1_TodoRoundTrip ==
    tpc = "parsed" =>
        /\ tparsed.err = ""
        /\ tparsed.todo.Name = todo.Name
        /\ tparsed.todo.Completed = todo.Completed

-----------------------------------------------------------------------------
(* Properties of the parser and the serializer *)

\* C2: for an accepted document d and s = Dump(ParseList(d), false), the text
\* s parses, to the same groups (leaf names, printed depths, todos, all in
\* order) as d, so that dumping again gives s.
C2_DumpParseFixedPoint ==
    pc = "reparsed" =>
        /\ list2.err = ""
        /\ GroupsOf(list2.list.Sublists) = GroupsOf(sublists)
        /\ Dump(list2.list.Sublists, FALSE) = out

\* C4: under each group, Dump(omitCompleted = true) writes exactly the
\* incomplete todos of the group, each once, in insertion order.
C4_OnlyIncompleteWritten ==
    (pc = "dumped" /\ omit) =>
        LET secs == SectionsOf(out)
        IN  /\ Len(secs) = Len(sublists)
            /\ \A i \in 1..Len(sublists) :
                 LET keep == SelectSeq(sublists[i].val, NotCompleted)
                 IN  secs[i] = [j \in 1..Len(keep) |-> String(keep[j])]

C4_Witness ==
    /\ pc = "dumped"
    /\ omit
    /\ \E i \in 1..Len(sublists) :
         /\ \E j \in 1..Len(sublists[i].val) : sublists[i].val[j].Completed
         /\ \E j \in 1..Len(sublists[i].val) : ~sublists[i].val[j].Completed

\* C5: Dump(omitCompleted = true) writes one heading line per group, also for
\* a group all of whose todos are completed: the heading lines of
\* Dump(omitCompleted = false), in the same order; one blank line before
\* every heading but the first and no blank line anywhere else.
C5_GroupsSurviveFilter ==
    (pc = "dumped" /\ omit) =>
        LET lines == LinesOf(out)
            heads == HeadingsIn(out)
        IN  /\ Len(heads) = Len(sublists)
            /\ \A i \in 1..Len(sublists) :
                 LET parts == Split(sublists[i].key, listSep)
                 IN  heads[i] = Repeat("#", Len(parts)) \o <<" ">>
                                    \o parts[Len(parts)]
            /\ heads = HeadingsIn(Dump(sublists, FALSE))
            /\ \A k \in 1..Len(lines) :
                 /\ IsBlank(lines[k]) =>
                        k > 1 /\ k < Len(lines) /\ IsHeading(lines[k + 1])
                 /\ (IsHeading(lines[k]) /\ k > 1) => IsBlank(lines[k - 1])

C5_Witness ==
    /\ pc = "dumped"
    /\ omit
    /\ Len(sublists) >= 2
    /\ \E i \in 1..Len(sublists) :
         \A j \in 1..Len(sublists[i].val) : sublists[i].val[j].Completed

\* C6: every line of the input that is neither blank nor a heading, the last
\* one too when no newline ends it, gives one todo of the List, or the parse
\* fails and returns no List: on success the List holds as many todos as the
\* input has such lines.
C6_NoLineDropped ==
    /\ pc = "done" =>
          TotalTodos(sublists) = Len(SelectSeq(LinesOf(input), IsItem))
    /\ pc = "failed" => perr # "" /\ sublists = <<>>

\* C7: the depth Dump prints for the group of a todo read under at least one
\* open heading is the number of headings that were open when it was read.
C7_PrintedDepthIsOpenHeadings ==
    pc = "dumped" =>
        \A k \in 1..Len(hist) :
            hist[k].open >= 1 =>
                PrintedDepth(out, sublists, hist[k].key) = hist[k].open

-----------------------------------------------------------------------------
(* Properties of the store and of CreateToday *)

\* every incomplete todo of `from` is, under the same listID, in `to`
Carried(from, to) ==
    \A i \in 1..Len(from) : \A j \in 1..Len(from[i].val) :
        ~from[i].val[j].Completed =>
            /\ OrdIndex(to, from[i].key, 1) # 0
            /\ \E m \in 1..Len(OrdGet(to, from[i].key)) :
                  /\ OrdGet(to, from[i].key)[m].Name = from[i].val[j].Name
                  /\ ~OrdGet(to, from[i].key)[m].Completed

\* C3: after any number of CreateToday calls with no edit in between, from a
\* parseable latest list, the newest file holds every incomplete todo of the
\* original list, and parsing it puts the todo under the same list path.
C3_CarryOverKeepsGrouping ==
    (res.cmd = "new" /\ res.err = "" /\ edited = 0 /\ orig.err = "") =>
        /\ ParseList(<<>>, files[res.path]).err = ""
        /\ Carried(orig.list.Sublists,
                   ParseList(<<>>, files[res.path]).list.Sublists)

\* C8: CreateToday on an empty directory succeeds, returns the new file's
\* name, and leaves a file for today whose only content is "TODO <today>".
C8_FirstRunWritesTitle ==
    (res.cmd = "new" /\ DOMAIN before = {}) =>
        /\ res.err = ""
        /\ res.path = res.today \o DotMd
        /\ res.path \in DOMAIN files
        /\ Len(LinesOf(files[res.path])) = 1
        /\ Trim(LinesOf(files[res.path])[1], {" ", "#"}) = Title(res.today)

\* C9: a CreateToday called while the file named for today exists fails with
\* the already-exists error and leaves the directory, that file's content
\* included, as it was.
C9_NeverOverwrite ==
    (res.cmd = "new" /\ res.today \o DotMd \in DOMAIN before) =>
        /\ res.err = "already exists"
        /\ files = before

C9_Witness ==
    /\ res.cmd = "new"
    /\ calls >= 2
    /\ res.err = "already exists"
    /\ res.today \o DotMd \in DOMAIN before
    /\ \E i \in 1..Len(parseList(before[res.today \o DotMd]).sublists) :
          \E j \in 1..Len(parseList(before[res.today \o DotMd]).sublists[i].val) :
             parseList(before[res.today \o DotMd]).sublists[i].val[j].Completed

ValidName(n) ==
    /\ Len(Split(n, <<".">>)) = 2
    /\ ParseDate(Split(n, <<".">>)[1]).err = ""

DateOfName(n) == ParseDate(Split(n, <<".">>)[1]).date

AllValid(fs) == DOMAIN fs # {} /\ \A n \in DOMAIN fs : ValidName(n)

\* the paths are by descending date, and the first carries the greatest
\* date of the directory fs
Descending(paths, fs) ==
    /\ Len(paths) = Cardinality(DOMAIN fs)
    /\ \A i \in 1..Len(paths) : \A j \in i..Len(paths) :
          Compare(DateOfName(paths[i]), DateOfName(paths[j])) >= 0
    /\ \A n \in DOMAIN fs : Compare(DateOfName(paths[1]), DateOfName(n)) >= 0
    /\ \E n \in DOMAIN fs : DateOfName(n) = DateOfName(paths[1])

NamedAfter(latest, path) == latest.err = "" => latest.list.Name = TrimExt(path)

\* C10: for a directory of validly named entries GetSortedListPaths returns
\* one path per entry, by descending date; the first carries the greatest
\* date of the directory, and GetLatestList names its List after it.
C10_DescendingOrder ==
    (res.cmd = "edit" /\ AllValid(before)) =>
        /\ res.err \in {"", "panic"}
        /\ Descending(res.paths, before)
        /\ NamedAfter(GetLatestList(before), res.paths[1])

C10_Witness ==
    /\ res.cmd = "edit"
    /\ res.err = ""
    /\ AllValid(before)
    /\ Len(res.paths) >= 3
    /\ \E n \in DOMAIN before : \E o \in DOMAIN before :
          Compare(DateOfName(n), DateOfName(o)) < 0 /\ NameLess(n, o)

\* C11: for a directory whose entries all have the shape <date>.<ext>, every
\* path GetSortedListPaths returns is the path of an entry of the directory,
\* and no path is returned twice.
C11_PathsAreEntries ==
    (res.cmd = "edit" /\ res.err = "" /\ AllValid(before)) =>
        /\ \A i \in 1..Len(res.paths) : res.paths[i] \in DOMAIN before
        /\ \A i \in 1..Len(res.paths) : \A j \in 1..Len(res.paths) :
              i # j => res.paths[i] # res.paths[j]

\* C12: every Todo of a List that ParseList returns has a Name that is not
\* empty after trimming; a checkbox with only whitespace after the ']' is
\* not accepted as a todo.
C12_NamesNonEmpty ==
    pc \in {"read", "done"} =>
        \A i \in 1..Len(sublists) : \A j \in 1..Len(sublists[i].val) :
            Trim(sublists[i].val[j].Name, {" ", NL}) # <<>>

\* C13: splitting the path key under which a todo was stored on the separator
\* recovers exactly the names of the headings that were open when the todo
\* was read, and todos read under different stacks of open headings never
\* share a path key.
C13_PathKeysUnambiguous ==
    /\ \A k \in 1..Len(hist) :
          hist[k].open >= 1 => Split(hist[k].key, listSep) = hist[k].names
    /\ \A k \in 1..Len(hist) : \A l \in 1..Len(hist) :
          hist[k].key = hist[l].key => hist[k].names = hist[l].names

\* what a call of CreateToday that reached GetLatestList, and got `latest`
\* from it, must have left behind
FailedCarryOverChangesNothing(latest, fname) ==
    /\ latest.err \notin {"", ErrListNotFound} =>
          /\ res.err = "getting previous list"
          /\ files = before
          /\ fname \notin DOMAIN files
    /\ latest.err = ErrListNotFound =>
          /\ res.err \in {"", "panic"}
          /\ fname \in DOMAIN files /\ files[fname] = <<>>
    /\ res.err = "" => latest.err \in {"", ErrListNotFound}

\* C14: when the scan of the directory or the parse of the latest list fails
\* inside CreateToday, the call returns an error, the directory is as it was
\* and holds no file for today; only ErrListNotFound is turned into an empty
\* list.
C14_FailedCarryOverChangesNothing ==
    (res.cmd = "new" /\ res.today \o DotMd \notin DOMAIN before) =>
        FailedCarryOverChangesNothing(GetLatestList(before), res.today \o DotMd)

\* a call of CreateToday failed on a latest list that does not parse
C14_Witness ==
    /\ res.cmd = "new"
    /\ res.err = "getting previous list"
    /\ res.today \o DotMd \notin DOMAIN before
    /\ GetLatestList(before).err = "parsing list"

\* C15: when there are lists, the index HandleEdit uses to select one is
\* within 0..len(paths)-1 for every offset strconv.Atoi accepts, the editor
\* is started on paths[index], and for offsets from 0 on the index is the
\* offset, or len(paths)-1 once the offset reaches len(paths).
C15_OffsetInBounds ==
    (res.cmd = "edit" /\ Len(res.paths) > 0) =>
        /\ res.index \in 0..(Len(res.paths) - 1)
        /\ res.err = ""
        /\ res.path = res.paths[res.index + 1]
        /\ res.offset >= 0 =>
              res.index = IF res.offset >= Len(res.paths)
                          THEN Len(res.paths) - 1 ELSE res.offset

====
